---- MODULE Spec2Model ----
(***************************************************************************)
(* Model of the stack language of src/main.py: the lexer (lex), the        *)
(* virtual machine (Vm.execute, Vm.execute_op, Vm.skip_until), the         *)
(* interactive loop (repl), the compiled file (Vm.save_to_file,            *)
(* Vm.load_from_file) and the command line (main).                         *)
(*                                                                         *)
(* A program is the flat list lex builds: opcode slots and, after every    *)
(* PUSH, one operand slot.  A slot or a stack value is a record            *)
(* [k |-> kind, v |-> number]; Python compares an operand with an opcode   *)
(* by number (Op is an IntEnum), so every comparison with an opcode looks  *)
(* at v only.  The instruction pointer ip is 0-based as in the source.     *)
(* The recursion of execute_op is kept as an explicit list of frames, one  *)
(* per If or While handler that is still running.                          *)
(***************************************************************************)
EXTENDS Integers, Sequences, FiniteSets, TLC

VARIABLES
    program,    \* Vm.program
    stack,      \* Vm.stack (the list shared with repl)
    ip,         \* Vm.ip
    frames,     \* the If/While handlers of execute_op that have not returned
    pc,         \* "loop": at a loop head; "dispatch": entering execute_op
    status,     \* "idle", "running", "done" or "error"
    err,        \* the message of the exception that ended the run
    output,     \* standard output
    stderr,     \* error stream
    code,       \* the words of the source text that was lexed
    stack0,     \* history: the stack when the current run started
    ifLog,      \* history: the latest dispatch of the If at each ip
    last,       \* history: the latest step of the run
    rpc,        \* position of repl or main: "prompt", "lex", "save", "load", "run", "exited"
    nlines,     \* number of lines read by repl
    exitBy,     \* why repl or main exited
    cmd,        \* the subcommand of main: "execute", "compile", "compile-run", "repl"
    files       \* the file system: the input file and the output file

vars == <<program, stack, ip, frames, pc, status, err, output, stderr, code,
          stack0, ifLog, last, rpc, nlines, exitBy, cmd, files>>

vmVars == <<program, stack, ip, frames, pc, status, err, output, ifLog, last>>

replVars == <<stderr, code, stack0, rpc, nlines, exitBy, cmd, files>>

----------------------------------------------------------------------------
(* Bounds *)

MaxLen == 4         \* words of a source text
MaxInitStack == 1   \* depth of the stack a single run starts with
MaxStack == 3       \* depth up to which Push is followed
MaxVal == 16        \* magnitude up to which Add is followed
MaxOut == 2         \* number of printed values up to which Dump is followed
MaxLines == 2       \* lines read by the interactive loop
ReplMaxLen == 2     \* words of a line of the interactive loop
MainMaxLen == 3     \* words of a source file
MaxSlots == 3       \* slots of the program of a compiled file

----------------------------------------------------------------------------
(* Opcodes: class Op(IntEnum), numbered by auto() *)

PUSH == 1
ADD == 2
EQUALS == 3
OP_IF == 4
OP_ELSE == 5
WHILE == 6
END == 7
COUNT == 8
DUMP == 9

OpSlot(n) == [k |-> "op", v |-> n]
IntV(n) == [k |-> "int", v |-> n]
FloatV(n) == [k |-> "float", v |-> n]
BoolV(b) == [k |-> "bool", v |-> IF b THEN 1 ELSE 0]

----------------------------------------------------------------------------
(* The lexer *)

Keywords == {"+", ".", "=", "if", "else", "while", "end"}
IntLiterals == {"0", "1", "2", "5", "7"}
FloatLiterals == {"2.0"}

\* int(word) on the literals of the model
IntOf(word) ==
    CASE word = "0" -> 0
      [] word = "1" -> 1
      [] word = "2" -> 2
      [] word = "5" -> 5
      [] word = "7" -> 7

\* float(word) on the literals of the model
FloatOf(word) ==
    CASE word = "2.0" -> 2

\* one iteration of the for loop of lex: the slots appended for a word
LexWord(word) ==
    CASE word = "+" -> <<OpSlot(ADD)>>
      [] word = "." -> <<OpSlot(DUMP)>>
      [] word = "=" -> <<OpSlot(EQUALS)>>
      [] word = "if" -> <<OpSlot(OP_IF)>>
      [] word = "else" -> <<OpSlot(OP_ELSE)>>
      [] word = "while" -> <<OpSlot(WHILE)>>
      [] word = "end" -> <<OpSlot(END)>>
      [] word \in IntLiterals -> <<OpSlot(PUSH), IntV(IntOf(word))>>
      [] word \in FloatLiterals -> <<OpSlot(PUSH), FloatV(FloatOf(word))>>
      [] OTHER -> <<>>

KnownWord(word) == word \in Keywords \cup IntLiterals \cup FloatLiterals

\* code.split(' ') without the empty words
Words(text) == SelectSeq(text, LAMBDA w : w # "")

RECURSIVE LexWords(_)
LexWords(words) ==
    IF words = <<>> THEN <<>>
    ELSE LexWord(Head(words)) \o LexWords(Tail(words))

\* lex that leaves out the words it does not know
LexSkipping(text) == [ok |-> TRUE, program |-> LexWords(Words(text))]

\* lex(code): the program, or the failure 'unknown word'
Lex(text) ==
    LET words == Words(text) IN
    IF \A i \in 1..Len(words) : KnownWord(words[i])
    THEN [ok |-> TRUE, program |-> LexWords(words)]
    ELSE [ok |-> FALSE, program |-> <<>>]

----------------------------------------------------------------------------
(* Helpers of the machine *)

\* Vm.current_op is defined when ip indexes the program
InRange(i) == 0 <= i /\ i < Len(program)

CurrentOp == program[ip + 1]

\* slot == op, as Python compares an IntEnum with a number
Is(slot, op) == slot.v = op

\* Op.END in self.program[i:]
EndInRest(i) == \E j \in i..(Len(program) - 1) : Is(program[j + 1], END)

\* Vm.skip_until(op) started with the pointer at i: the index where it stops,
\* or Len(program) when current_op raises IndexError
RECURSIVE SkipUntil(_, _)
SkipUntil(i, op) ==
    IF i >= Len(program) THEN Len(program)
    ELSE IF Is(program[i + 1], op) THEN i
    ELSE SkipUntil(i + 1, op)

\* truth value of a popped condition
Truthy(x) == x.v # 0

\* Sum with the top of the stack taken for both operands
SumOfTop(a, b) ==
    [k |-> IF a.k = "float" \/ b.k = "float" THEN "float" ELSE "int",
     v |-> b.v + b.v]

\* a + b
Sum(a, b) ==
    [k |-> IF a.k = "float" \/ b.k = "float" THEN "float" ELSE "int",
     v |-> a.v + b.v]

\* a == b
Eq(a, b) == BoolV(a.v = b.v)

Top(s) == s[Len(s)]
Pop(s) == SubSeq(s, 1, Len(s) - 1)

Frame(kind, at, wip) == [kind |-> kind, at |-> at, while_ip |-> wip]
TopFrame == frames[Len(frames)]

\* an exception leaves execute: every handler is unwound
Raise(msg) ==
    /\ status' = "error"
    /\ err' = msg
    /\ frames' = <<>>
    /\ pc' = "loop"

IndexErrorRead == "list index out of range"
IndexErrorPop == "pop from empty list"

----------------------------------------------------------------------------
(* Vm.execute and Vm.execute_op *)

Running == status = "running" /\ rpc = "run"

Dispatching(op) ==
    /\ Running
    /\ pc = "dispatch"
    /\ InRange(ip)
    /\ Is(CurrentOp, op)

Step(act) == [act |-> act, at |-> ip, pre |-> stack]

\* history of an If: the truth of the popped condition, the stack after the
\* pop and the output at that moment
NotTaken == [cond |-> "none", stk |-> <<>>, out |-> <<>>]
Taken(c) == [cond |-> c, stk |-> Pop(stack), out |-> output]

\* the handler of a plain instruction returns: self.ip += 1, back to the
\* loop that called execute_op
Return(newIp) ==
    /\ ip' = newIp
    /\ pc' = "loop"
    /\ UNCHANGED <<frames, status, err>>

\* while self.ip < len(self.program): self.execute_op()
ExecuteLoop ==
    /\ Running
    /\ pc = "loop"
    /\ frames = <<>>
    /\ IF ip < Len(program)
       THEN /\ pc' = "dispatch"
            /\ UNCHANGED status
       ELSE /\ status' = "done"
            /\ UNCHANGED pc
    /\ last' = Step("execute")
    /\ UNCHANGED <<program, stack, ip, frames, err, output, ifLog>>
    /\ UNCHANGED replVars

\* ExecPush that leaves the pointer on the operand it has pushed
ExecPushShort ==
    /\ Dispatching(PUSH)
    /\ last' = Step("push")
    /\ IF InRange(ip + 1)
       THEN /\ Len(stack) < MaxStack
            /\ stack' = Append(stack, program[ip + 2])
            /\ Return(ip + 1)
       ELSE /\ ip' = ip + 1
            /\ Raise(IndexErrorRead)
            /\ UNCHANGED stack
    /\ UNCHANGED <<program, output, ifLog>>
    /\ UNCHANGED replVars

\* op == Op.PUSH
ExecPush ==
    /\ Dispatching(PUSH)
    /\ last' = Step("push")
    /\ IF InRange(ip + 1)
       THEN /\ Len(stack) < MaxStack
            /\ stack' = Append(stack, program[ip + 2])
            /\ Return(ip + 2)
       ELSE /\ ip' = ip + 1
            /\ Raise(IndexErrorRead)
            /\ UNCHANGED stack
    /\ UNCHANGED <<program, output, ifLog>>
    /\ UNCHANGED replVars

\* b = pop(); a = pop(); append(a + b) for op == Op.ADD, append(a == b) for
\* op == Op.EQUALS
Binary(op) ==
    IF Len(stack) >= 2
    THEN LET b == Top(stack)
             a == Top(Pop(stack))
             r == IF op = ADD THEN Sum(a, b) ELSE Eq(a, b)
         IN /\ r.v <= MaxVal
            /\ r.v >= -MaxVal
            /\ stack' = Append(Pop(Pop(stack)), r)
            /\ Return(ip + 1)
    ELSE /\ stack' = <<>>
         /\ Raise(IndexErrorPop)
         /\ UNCHANGED ip

\* op == Op.ADD
ExecAdd ==
    /\ Dispatching(ADD)
    /\ last' = Step("add")
    /\ Binary(ADD)
    /\ UNCHANGED <<program, output, ifLog>>
    /\ UNCHANGED replVars

\* op == Op.EQUALS
ExecEquals ==
    /\ Dispatching(EQUALS)
    /\ last' = Step("equals")
    /\ Binary(EQUALS)
    /\ UNCHANGED <<program, output, ifLog>>
    /\ UNCHANGED replVars

\* op == Op.IF, up to the entry of one of its two loops
ExecIf ==
    /\ Dispatching(OP_IF)
    /\ last' = Step("if")
    /\ IF ~EndInRest(ip)
       THEN /\ Raise("if op requires an end")
            /\ UNCHANGED <<stack, ip, ifLog>>
       ELSE IF stack = <<>>
       THEN /\ Raise(IndexErrorPop)
            /\ UNCHANGED <<stack, ip, ifLog>>
       ELSE /\ stack' = Pop(stack)
            /\ pc' = "loop"
            /\ UNCHANGED <<status, err>>
            /\ IF Truthy(Top(stack))
               THEN /\ ip' = ip + 1
                    /\ frames' = Append(frames, Frame("ifT", ip, ip + 1))
                    /\ ifLog' = [ifLog EXCEPT ![ip] = Taken("T")]
               ELSE /\ ip' = ip
                    /\ frames' = Append(frames, Frame("ifF", ip, ip + 1))
                    /\ ifLog' = [ifLog EXCEPT ![ip] = Taken("F")]
    /\ UNCHANGED <<program, output>>
    /\ UNCHANGED replVars

\* LeaveFrame that leaves the pointer on the End
LeaveFrameStaying ==
    /\ frames' = Pop(frames)
    /\ ip' = ip
    /\ pc' = "loop"
    /\ last' = [act |-> "return", at |-> TopFrame.at, pre |-> stack]
    /\ UNCHANGED <<status, err>>

\* the handler of an If or of a While leaves its loop: self.ip += 1
LeaveFrame ==
    /\ frames' = Pop(frames)
    /\ ip' = ip + 1
    /\ pc' = "loop"
    /\ last' = [act |-> "return", at |-> TopFrame.at, pre |-> stack]
    /\ UNCHANGED <<status, err>>

\* the loop of the true branch: while self.current_op() != Op.END
IfThenLoop ==
    /\ Running
    /\ pc = "loop"
    /\ frames # <<>>
    /\ TopFrame.kind = "ifT"
    /\ IF ~InRange(ip)
       THEN /\ Raise(IndexErrorRead)
            /\ last' = Step("then")
            /\ UNCHANGED ip
       ELSE IF Is(CurrentOp, END)
       THEN LeaveFrame
       ELSE IF Is(CurrentOp, OP_ELSE)
       THEN /\ ip' = SkipUntil(ip, END)
            /\ last' = Step("skip")
            /\ IF InRange(ip')
               THEN UNCHANGED <<frames, pc, status, err>>
               ELSE Raise(IndexErrorRead)
       ELSE /\ pc' = "dispatch"
            /\ last' = Step("then")
            /\ UNCHANGED <<ip, frames, status, err>>
    /\ UNCHANGED <<program, stack, output, ifLog>>
    /\ UNCHANGED replVars

\* the loop of the false branch: one test of while self.current_op() != Op.END
\* and, when it holds, self.ip += 1 and the test for Op.ELSE
IfElseScan ==
    /\ Running
    /\ pc = "loop"
    /\ frames # <<>>
    /\ TopFrame.kind = "ifF"
    /\ IF ~InRange(ip)
       THEN /\ Raise(IndexErrorRead)
            /\ last' = Step("scan")
            /\ UNCHANGED ip
       ELSE IF Is(CurrentOp, END)
       THEN LeaveFrame
       ELSE /\ last' = Step("scan")
            /\ IF ~InRange(ip + 1)
               THEN /\ ip' = ip + 1
                    /\ Raise(IndexErrorRead)
               ELSE IF Is(program[ip + 2], OP_ELSE)
               THEN /\ ip' = ip + 2
                    /\ frames' = [frames EXCEPT ![Len(frames)].kind = "ifFE"]
                    /\ UNCHANGED <<pc, status, err>>
               ELSE /\ ip' = ip + 1
                    /\ UNCHANGED <<frames, pc, status, err>>
    /\ UNCHANGED <<program, stack, output, ifLog>>
    /\ UNCHANGED replVars

\* the loop after the Else of the false branch:
\* while self.current_op() != Op.END: self.execute_op()
IfElseLoop ==
    /\ Running
    /\ pc = "loop"
    /\ frames # <<>>
    /\ TopFrame.kind = "ifFE"
    /\ IF ~InRange(ip)
       THEN /\ Raise(IndexErrorRead)
            /\ last' = Step("else")
            /\ UNCHANGED ip
       ELSE IF Is(CurrentOp, END)
       THEN LeaveFrame
       ELSE /\ pc' = "dispatch"
            /\ last' = Step("else")
            /\ UNCHANGED <<ip, frames, status, err>>
    /\ UNCHANGED <<program, stack, output, ifLog>>
    /\ UNCHANGED replVars

\* op == Op.WHILE, up to the entry of its loop, or to its return when the
\* condition is false
ExecWhile ==
    /\ Dispatching(WHILE)
    /\ last' = Step("while")
    /\ IF ~EndInRest(ip)
       THEN /\ Raise("while op requires an end")
            /\ UNCHANGED <<stack, ip>>
       ELSE IF stack = <<>>
       THEN /\ Raise(IndexErrorPop)
            /\ UNCHANGED <<stack, ip>>
       ELSE /\ stack' = Pop(stack)
            /\ IF Truthy(Top(stack))
               THEN /\ ip' = ip + 1
                    /\ frames' = Append(frames, Frame("while", ip, ip + 1))
                    /\ pc' = "loop"
                    /\ UNCHANGED <<status, err>>
               ELSE IF InRange(SkipUntil(ip + 1, END))
               THEN Return(SkipUntil(ip + 1, END) + 1)
               ELSE /\ ip' = SkipUntil(ip + 1, END)
                    /\ Raise(IndexErrorRead)
    /\ UNCHANGED <<program, output, ifLog>>
    /\ UNCHANGED replVars

\* WhileLoop that pops the stack again when the body has reached its End
WhileLoopRepopping ==
    /\ Running
    /\ pc = "loop"
    /\ frames # <<>>
    /\ TopFrame.kind = "while"
    /\ last' = Step("loop")
    /\ IF ~InRange(ip)
       THEN /\ Raise(IndexErrorRead)
            /\ UNCHANGED <<ip, stack>>
       ELSE /\ ip' = IF Is(CurrentOp, END) THEN TopFrame.while_ip ELSE ip
            /\ stack' = IF Is(CurrentOp, END) /\ stack # <<>> THEN Pop(stack) ELSE stack
            /\ pc' = "dispatch"
            /\ UNCHANGED <<frames, status, err>>
    /\ UNCHANGED <<program, output, ifLog>>
    /\ UNCHANGED replVars

\* one iteration of while cond: the test for Op.END, the reset of the
\* pointer to while_ip, and the entry of execute_op
WhileLoop ==
    /\ Running
    /\ pc = "loop"
    /\ frames # <<>>
    /\ TopFrame.kind = "while"
    /\ last' = Step("loop")
    /\ IF ~InRange(ip)
       THEN /\ Raise(IndexErrorRead)
            /\ UNCHANGED ip
       ELSE /\ ip' = IF Is(CurrentOp, END) THEN TopFrame.while_ip ELSE ip
            /\ pc' = "dispatch"
            /\ UNCHANGED <<frames, status, err>>
    /\ UNCHANGED <<program, stack, output, ifLog>>
    /\ UNCHANGED replVars

\* ExecDump that tolerates an empty stack: it prints nothing and goes on
ExecDumpLenient ==
    /\ Dispatching(DUMP)
    /\ last' = Step("dump")
    /\ IF stack = <<>>
       THEN /\ Return(ip + 1)
            /\ UNCHANGED <<stack, output>>
       ELSE /\ Len(output) < MaxOut
            /\ stack' = Pop(stack)
            /\ output' = Append(output, Top(stack))
            /\ Return(ip + 1)
    /\ UNCHANGED <<program, ifLog>>
    /\ UNCHANGED replVars

\* op == Op.DUMP
ExecDump ==
    /\ Dispatching(DUMP)
    /\ last' = Step("dump")
    /\ IF stack = <<>>
       THEN /\ Raise(IndexErrorPop)
            /\ UNCHANGED <<stack, ip, output>>
       ELSE /\ Len(output) < MaxOut
            /\ stack' = Pop(stack)
            /\ output' = Append(output, Top(stack))
            /\ Return(ip + 1)
    /\ UNCHANGED <<program, ifLog>>
    /\ UNCHANGED replVars

\* op == Op.ELSE, op == Op.END and the final else of execute_op
ExecStray ==
    /\ Running
    /\ pc = "dispatch"
    /\ InRange(ip)
    /\ CurrentOp.v \notin {PUSH, ADD, EQUALS, OP_IF, WHILE, DUMP}
    /\ last' = Step("stray")
    /\ Raise(CASE Is(CurrentOp, OP_ELSE) -> "else op requires an if"
               [] Is(CurrentOp, END) -> "end op should close an if or else block"
               [] OTHER -> "unreachable")
    /\ UNCHANGED <<program, stack, ip, output, ifLog>>
    /\ UNCHANGED replVars

Next ==
    \/ ExecuteLoop
    \/ ExecPush
    \/ ExecAdd
    \/ ExecEquals
    \/ ExecIf
    \/ IfThenLoop
    \/ IfElseScan
    \/ IfElseLoop
    \/ ExecWhile
    \/ WhileLoop
    \/ ExecDump
    \/ ExecStray

----------------------------------------------------------------------------
(* A single run: Vm(program, stack).execute() *)

Tokens == Keywords \cup IntLiterals

InitVals == {IntV(0), IntV(1)}

RECURSIVE SeqsUpTo(_, _)
SeqsUpTo(S, n) ==
    IF n = 0 THEN {<<>>}
    ELSE LET shorter == SeqsUpTo(S, n - 1)
         IN shorter \cup {Append(s, x) : s \in {t \in shorter : Len(t) = n - 1}, x \in S}

NoStep == [act |-> "none", at |-> 0, pre |-> <<>>]

\* no file is read or written
NoFiles == [input |-> <<>>, output |-> <<>>]

\* Vm.__init__ for the program lexed from text and the given stack
Construct(text, st) ==
    /\ code = text
    /\ program = Lex(text).program
    /\ stack = st
    /\ ip = 0
    /\ frames = <<>>
    /\ pc = "loop"
    /\ status = "running"
    /\ err = ""
    /\ ifLog = [i \in 0..(Len(program) - 1) |-> NotTaken]
    /\ last = NoStep

Init ==
    /\ \E text \in SeqsUpTo(Tokens, MaxLen), st \in SeqsUpTo(InitVals, MaxInitStack) :
          /\ Construct(text, st)
          /\ stack0 = st
    /\ output = <<>>
    /\ stderr = <<>>
    /\ rpc = "run"
    /\ nlines = 0
    /\ exitBy = ""
    /\ cmd = "none"
    /\ files = NoFiles

Spec == Init /\ [][Next]_vars

----------------------------------------------------------------------------
(* The interactive loop: repl() *)

ReplTokens == {"1", "+", ".", "end", "x", ""}

ReplLines ==
    SeqsUpTo(ReplTokens, ReplMaxLen) \cup
    { <<"0">>, <<"1", "1", "=">>, <<"if", "1", "end">>,
      <<"if", "else", "1", "end">>, <<"while", "end">>,
      <<"while", "1", "end">>, <<"1", "1", "x">> }

\* stack = []
ReplInit ==
    /\ stack = <<>>
    /\ program = <<>>
    /\ ip = 0
    /\ frames = <<>>
    /\ pc = "loop"
    /\ status = "idle"
    /\ err = ""
    /\ output = <<>>
    /\ stderr = <<>>
    /\ code = <<>>
    /\ stack0 = <<>>
    /\ ifLog = <<>>
    /\ last = NoStep
    /\ rpc = "prompt"
    /\ nlines = 0
    /\ exitBy = ""
    /\ cmd = "repl"
    /\ files = NoFiles

\* ReadLine that keeps the machine of the previous line and appends the new
\* program to the old one
ReadLineAppending ==
    /\ rpc = "prompt"
    /\ nlines < MaxLines
    /\ \E text \in ReplLines :
          /\ code' = text
          /\ IF Lex(text).ok
             THEN /\ program' = program \o Lex(text).program
                  /\ ip' = 0
                  /\ frames' = <<>>
                  /\ pc' = "loop"
                  /\ status' = "running"
                  /\ err' = ""
                  /\ ifLog' = [i \in 0..(Len(program') - 1) |-> NotTaken]
                  /\ last' = NoStep
             ELSE /\ status' = "error"
                  /\ err' = "unknown word"
                  /\ UNCHANGED <<program, ip, frames, pc, ifLog, last>>
    /\ rpc' = "run"
    /\ nlines' = nlines + 1
    /\ stack0' = stack
    /\ UNCHANGED <<stack, output, stderr, exitBy>>
    /\ UNCHANGED <<cmd, files>>

\* line = prompt('> '); program = lex(line); vm = Vm(program, stack)
ReadLine ==
    /\ rpc = "prompt"
    /\ nlines < MaxLines
    /\ \E text \in ReplLines :
          /\ code' = text
          /\ IF Lex(text).ok
             THEN /\ program' = Lex(text).program
                  /\ ip' = 0
                  /\ frames' = <<>>
                  /\ pc' = "loop"
                  /\ status' = "running"
                  /\ err' = ""
                  /\ ifLog' = [i \in 0..(Len(program') - 1) |-> NotTaken]
                  /\ last' = NoStep
             ELSE /\ status' = "error"
                  /\ err' = "unknown word"
                  /\ UNCHANGED <<program, ip, frames, pc, ifLog, last>>
    /\ rpc' = "run"
    /\ nlines' = nlines + 1
    /\ stack0' = stack
    /\ UNCHANGED <<stack, output, stderr, exitBy>>
    /\ UNCHANGED <<cmd, files>>

\* print(vm.stack)
PrintStack ==
    /\ rpc = "run"
    /\ status = "done"
    /\ output' = Append(output, [k |-> "list", v |-> stack])
    /\ rpc' = "prompt"
    /\ UNCHANGED <<program, stack, ip, frames, pc, status, err, stderr, code,
                   stack0, ifLog, last, nlines, exitBy>>
    /\ UNCHANGED <<cmd, files>>

\* Report that puts back the stack the failed line started with
ReportRestoring ==
    /\ rpc = "run"
    /\ status = "error"
    /\ stderr' = Append(stderr, err)
    /\ rpc' = "prompt"
    /\ stack' = stack0
    /\ UNCHANGED <<program, ip, frames, pc, status, err, output, code,
                   stack0, ifLog, last, nlines, exitBy>>
    /\ UNCHANGED <<cmd, files>>

\* Report that ends the process, as the file commands of main do
ReportAndExit ==
    /\ rpc = "run"
    /\ status = "error"
    /\ stderr' = Append(stderr, err)
    /\ rpc' = "exited"
    /\ exitBy' = "error"
    /\ UNCHANGED <<program, stack, ip, frames, pc, status, err, output, code,
                   stack0, ifLog, last, nlines>>
    /\ UNCHANGED <<cmd, files>>

\* except Exception as e: print('error: ' + str(e), file=sys.stderr)
Report ==
    /\ rpc = "run"
    /\ status = "error"
    /\ stderr' = Append(stderr, err)
    /\ rpc' = "prompt"
    /\ UNCHANGED <<program, stack, ip, frames, pc, status, err, output, code,
                   stack0, ifLog, last, nlines, exitBy>>
    /\ UNCHANGED <<cmd, files>>

\* except (KeyboardInterrupt, EOFError): exit(0), for prompt raising EOFError
EndOfInput ==
    /\ rpc = "prompt"
    /\ rpc' = "exited"
    /\ exitBy' = "eof"
    /\ UNCHANGED <<program, stack, ip, frames, pc, status, err, output, stderr,
                   code, stack0, ifLog, last, nlines>>
    /\ UNCHANGED <<cmd, files>>

\* except (KeyboardInterrupt, EOFError): exit(0), for KeyboardInterrupt
\* raised while prompting or while the line runs
Interrupt ==
    /\ \/ rpc = "prompt"
       \/ rpc = "run" /\ status = "running"
    /\ rpc' = "exited"
    /\ exitBy' = "interrupt"
    /\ UNCHANGED <<program, stack, ip, frames, pc, status, err, output, stderr,
                   code, stack0, ifLog, last, nlines>>
    /\ UNCHANGED <<cmd, files>>

ReplNext ==
    \/ Next
    \/ ReadLine
    \/ PrintStack
    \/ Report
    \/ EndOfInput
    \/ Interrupt

ReplSpec == ReplInit /\ [][ReplNext]_vars

\* the loop runs without pause: a step of the machine or of the loop that is
\* possible is eventually taken, unless the user interrupts
ReplFairSpec == ReplSpec /\ WF_vars(Next) /\ WF_vars(PrintStack) /\ WF_vars(Report)

----------------------------------------------------------------------------
(* The compiled file: Vm.save_to_file and Vm.load_from_file                *)
(*                                                                         *)
(* A file is the list of the pickle instructions written to it; each       *)
(* pickle.dump writes one pickle, closed by STOP.  An integer beyond the   *)
(* machine word is written by its bytes (LONG1, the number of bytes, the   *)
(* bytes), an Op member as the call                                        *)
(* Op(value), a list as its items between MARK and APPENDS.  The memo of   *)
(* pickle, which only shares repeated objects, is left out.                *)

\* STACK_MAGIC = 0x535441434b, by its bytes, lowest first
STACK_MAGIC == [k |-> "long", v |-> <<75, 67, 65, 84, 83>>]

\* STACK_VERSION = 1.0
STACK_VERSION == FloatV(1)

ListV(items) == [k |-> "list", v |-> items]

P(name, arg) == [p |-> name, n |-> arg]

\* the bytes of a long integer, as pickle instructions
Bytes(bs) == [j \in 1..Len(bs) |-> P("BYTE", bs[j])]

\* the bytes read back: the n instructions of f from pos on
ReadBytes(f, pos, n) == [j \in 1..n |-> f[pos + j - 1].n]

RECURSIVE PickleItems(_)

\* PickleObj that writes a float as the integer of the same value
PickleObjIntegral(x) ==
    CASE x.k = "int" -> <<P("BININT", x.v)>>
      [] x.k = "float" -> <<P("BININT", x.v)>>
      [] x.k = "long" -> <<P("LONG1", Len(x.v))>> \o Bytes(x.v)
      [] x.k = "op" -> <<P("GLOBAL_OP", 0), P("BININT", x.v), P("TUPLE1", 0), P("REDUCE", 0)>>
      [] x.k = "list" ->
            IF x.v = <<>> THEN <<P("EMPTY_LIST", 0)>>
            ELSE <<P("EMPTY_LIST", 0), P("MARK", 0)>> \o PickleItems(x.v) \o <<P("APPENDS", 0)>>

\* the instructions pickle writes for one object
PickleObj(x) ==
    CASE x.k = "int" -> <<P("BININT", x.v)>>
      [] x.k = "float" -> <<P("BINFLOAT", x.v)>>
      [] x.k = "long" -> <<P("LONG1", Len(x.v))>> \o Bytes(x.v)
      [] x.k = "op" -> <<P("GLOBAL_OP", 0), P("BININT", x.v), P("TUPLE1", 0), P("REDUCE", 0)>>
      [] x.k = "list" ->
            IF x.v = <<>> THEN <<P("EMPTY_LIST", 0)>>
            ELSE <<P("EMPTY_LIST", 0), P("MARK", 0)>> \o PickleItems(x.v) \o <<P("APPENDS", 0)>>

PickleItems(items) ==
    IF items = <<>> THEN <<>>
    ELSE PickleObj(Head(items)) \o PickleItems(Tail(items))

\* pickle.dump(obj, f): what is appended to the file
Dump(obj) == <<P("PROTO", 4)>> \o PickleObj(obj) \o <<P("STOP", 0)>>

\* the three pickles of save_to_file
Serialize(magic, version, prog) == Dump(magic) \o Dump(version) \o Dump(prog)

\* the items above the topmost mark of the unpickler's stack, and the stack
\* below that mark
RECURSIVE AboveMark(_)
AboveMark(st) ==
    IF st = <<>> THEN <<>>
    ELSE IF Top(st).k = "mark" THEN <<>>
    ELSE Append(AboveMark(Pop(st)), Top(st))

BelowMark(st) == SubSeq(st, 1, Len(st) - Len(AboveMark(st)) - 1)

Failed(pos) == [ok |-> FALSE, obj |-> IntV(0), pos |-> pos]

\* pickle.load(f) with the file read up to pos (1-based) and the unpickler's
\* stack st: the object, and the position after its STOP
RECURSIVE Unpickle(_, _, _)
Unpickle(f, pos, st) ==
    IF pos > Len(f) THEN Failed(pos)
    ELSE LET i == f[pos] IN
    CASE i.p = "PROTO" -> Unpickle(f, pos + 1, st)
      [] i.p = "BININT" -> Unpickle(f, pos + 1, Append(st, IntV(i.n)))
      [] i.p = "BINFLOAT" -> Unpickle(f, pos + 1, Append(st, FloatV(i.n)))
      [] i.p = "LONG1" ->
            IF pos + i.n > Len(f) THEN Failed(pos)
            ELSE Unpickle(f, pos + 1 + i.n,
                          Append(st, [k |-> "long", v |-> ReadBytes(f, pos + 1, i.n)]))
      [] i.p = "GLOBAL_OP" -> Unpickle(f, pos + 1, Append(st, [k |-> "class", v |-> 0]))
      [] i.p = "TUPLE1" ->
            IF st = <<>> THEN Failed(pos)
            ELSE Unpickle(f, pos + 1, Append(Pop(st), [k |-> "tuple", v |-> <<Top(st)>>]))
      [] i.p = "REDUCE" ->
            IF Len(st) < 2 THEN Failed(pos)
            ELSE IF Top(st).k # "tuple" \/ Top(Pop(st)).k # "class" THEN Failed(pos)
            ELSE IF Top(st).v[1].k # "int" THEN Failed(pos)
            ELSE IF Top(st).v[1].v \notin 1..9 THEN Failed(pos)
            ELSE Unpickle(f, pos + 1, Append(Pop(Pop(st)), OpSlot(Top(st).v[1].v)))
      [] i.p = "EMPTY_LIST" -> Unpickle(f, pos + 1, Append(st, ListV(<<>>)))
      [] i.p = "MARK" -> Unpickle(f, pos + 1, Append(st, [k |-> "mark", v |-> 0]))
      [] i.p = "APPENDS" ->
            IF Len(AboveMark(st)) = Len(st) THEN Failed(pos)
            ELSE IF BelowMark(st) = <<>> THEN Failed(pos)
            ELSE IF Top(BelowMark(st)).k # "list" THEN Failed(pos)
            ELSE Unpickle(f, pos + 1,
                          Append(Pop(BelowMark(st)),
                                 ListV(Top(BelowMark(st)).v \o AboveMark(st))))
      [] i.p = "STOP" ->
            IF st = <<>> THEN Failed(pos)
            ELSE [ok |-> TRUE, obj |-> Top(st), pos |-> pos + 1]
      [] OTHER -> Failed(pos)

\* x != y for two unpickled objects
Differ(x, y) ==
    IF x.k \in {"long", "list"} \/ y.k \in {"long", "list"}
    THEN ~(x.k = y.k /\ x.v = y.v)
    ELSE x.v # y.v

\* load_from_file with the magic tested after the version
LoadVersionFirst(f, old) ==
    LET magic == Unpickle(f, 1, <<>>)
        version == Unpickle(f, magic.pos, <<>>)
        prog == Unpickle(f, version.pos, <<>>)
    IN IF ~magic.ok \/ ~version.ok THEN [err |-> "Ran out of input", program |-> old]
       ELSE IF Differ(version.obj, STACK_VERSION)
       THEN [err |-> "invalid file version", program |-> old]
       ELSE IF Differ(magic.obj, STACK_MAGIC)
       THEN [err |-> "invalid file format", program |-> old]
       ELSE IF ~prog.ok THEN [err |-> "Ran out of input", program |-> old]
       ELSE [err |-> "", program |-> prog.obj.v]

\* load_from_file on the file f by a machine whose program is old
LoadFromFile(f, old) ==
    LET magic == Unpickle(f, 1, <<>>)
        version == Unpickle(f, magic.pos, <<>>)
        prog == Unpickle(f, version.pos, <<>>)
    IN IF ~magic.ok THEN [err |-> "Ran out of input", program |-> old]
       ELSE IF Differ(magic.obj, STACK_MAGIC)
       THEN [err |-> "invalid file format", program |-> old]
       ELSE IF ~version.ok THEN [err |-> "Ran out of input", program |-> old]
       ELSE IF Differ(version.obj, STACK_VERSION)
       THEN [err |-> "invalid file version", program |-> old]
       ELSE IF ~prog.ok THEN [err |-> "Ran out of input", program |-> old]
       ELSE [err |-> "", program |-> prog.obj.v]

\* save_to_file: the contents of the written file
SaveToFile(prog) == Serialize(STACK_MAGIC, STACK_VERSION, ListV(prog))

----------------------------------------------------------------------------
(* The command line: main() *)

\* the words of the lines of a text, in order
RECURSIVE Join(_)
Join(lines) ==
    IF lines = <<>> THEN <<>>
    ELSE Head(lines) \o Join(Tail(lines))

\* lex_file: the empty lines are dropped, the others joined and lexed
LexFile(lines) == Lex(Join(SelectSeq(lines, LAMBDA l : l # <<>>)))

MainTokens == Tokens \cup FloatLiterals \cup {"x"}

SourceFiles ==
    {<<w>> : w \in SeqsUpTo(MainTokens, MainMaxLen)} \cup
    { << <<"1">>, <<>>, <<"2.0", "+">>, <<".">> >>,
      << <<"1", "if">>, <<"2", ".">>, <<"else", "7", ".">>, <<"end">> >> }

Slots ==
    {OpSlot(n) : n \in {PUSH, ADD, EQUALS, OP_IF, OP_ELSE, WHILE, END, DUMP}} \cup
    {IntV(1), IntV(7), FloatV(2)}

OtherMagic == [k |-> "long", v |-> <<75, 67, 65, 84, 84>>]

Versions == {FloatV(1), FloatV(2), IntV(1), IntV(2)}

SomePrograms == {<<>>, <<OpSlot(PUSH), IntV(1), OpSlot(DUMP)>>}

CorruptFiles ==
    {Serialize(STACK_MAGIC, v, ListV(p)) : v \in Versions, p \in SomePrograms} \cup
    {Serialize(OtherMagic, v, ListV(p)) : v \in Versions, p \in SomePrograms} \cup
    {Serialize(IntV(0), v, ListV(p)) : v \in Versions, p \in SomePrograms} \cup
    {<<>>, Dump(OtherMagic), Dump(STACK_MAGIC), Dump(STACK_MAGIC) \o Dump(IntV(2))}

CompiledFiles == {SaveToFile(p) : p \in SeqsUpTo(Slots, MaxSlots)} \cup CorruptFiles

FileCommands == {"execute", "compile", "compile-run"}

\* main() up to the first step of the chosen subcommand
MainInit ==
    \/ ReplInit
    \/ /\ cmd \in FileCommands
       /\ \/ cmd = "execute" /\ files \in {[input |-> f, output |-> <<>>] : f \in CompiledFiles}
          \/ cmd # "execute" /\ files \in {[input |-> f, output |-> <<>>] : f \in SourceFiles}
       /\ rpc = IF cmd = "execute" THEN "load" ELSE "lex"
       /\ program = <<>>
       /\ stack = <<>>
       /\ ip = 0
       /\ frames = <<>>
       /\ pc = "loop"
       /\ status = "idle"
       /\ err = ""
       /\ output = <<>>
       /\ stderr = <<>>
       /\ code = <<>>
       /\ stack0 = <<>>
       /\ ifLog = <<>>
       /\ last = NoStep
       /\ nlines = 0
       /\ exitBy = ""

\* program = lex_file(args.input_file); vm = Vm(program)
MainLexFile ==
    /\ cmd \in FileCommands
    /\ rpc = "lex"
    /\ code' = Join(SelectSeq(files.input, LAMBDA l : l # <<>>))
    /\ IF LexFile(files.input).ok
       THEN /\ program' = LexFile(files.input).program
            /\ rpc' = "save"
            /\ UNCHANGED <<status, err>>
       ELSE /\ status' = "error"
            /\ err' = "unknown word"
            /\ rpc' = "run"
            /\ UNCHANGED program
    /\ UNCHANGED <<stack, ip, frames, pc, output, stderr, stack0, ifLog, last,
                   nlines, exitBy, cmd, files>>

\* vm.save_to_file(args.output), and the end of main without --run
MainSave ==
    /\ cmd \in FileCommands
    /\ rpc = "save"
    /\ files' = [files EXCEPT !.output = SaveToFile(program)]
    /\ IF cmd = "compile-run"
       THEN /\ rpc' = "load"
            /\ UNCHANGED exitBy
       ELSE /\ rpc' = "exited"
            /\ exitBy' = "status 0"
    /\ UNCHANGED <<program, stack, ip, frames, pc, status, err, output, stderr,
                   code, stack0, ifLog, last, nlines, cmd>>

\* the file load_from_file reads: args.input_file for execute, args.output
\* for compile --run
LoadedFile == IF cmd = "execute" THEN files.input ELSE files.output

\* MainLoad that prints the loaded program
MainLoadEchoing ==
    /\ cmd \in FileCommands
    /\ rpc = "load"
    /\ last' = [act |-> "load", at |-> 0, pre |-> stack]
    /\ rpc' = "run"
    /\ IF LoadFromFile(LoadedFile, program).err = ""
       THEN /\ program' = LoadFromFile(LoadedFile, program).program
            /\ status' = "running"
            /\ ifLog' = [i \in 0..(Len(program') - 1) |-> NotTaken]
            /\ output' = Append(output, ListV(program'))
            /\ UNCHANGED err
       ELSE /\ status' = "error"
            /\ err' = LoadFromFile(LoadedFile, program).err
            /\ UNCHANGED <<program, ifLog, output>>
    /\ UNCHANGED <<stack, ip, frames, pc, stderr, code, stack0,
                   nlines, exitBy, cmd, files>>

\* vm.load_from_file(...), followed by vm.execute()
MainLoad ==
    /\ cmd \in FileCommands
    /\ rpc = "load"
    /\ last' = [act |-> "load", at |-> 0, pre |-> stack]
    /\ rpc' = "run"
    /\ IF LoadFromFile(LoadedFile, program).err = ""
       THEN /\ program' = LoadFromFile(LoadedFile, program).program
            /\ status' = "running"
            /\ ifLog' = [i \in 0..(Len(program') - 1) |-> NotTaken]
            /\ UNCHANGED err
       ELSE /\ status' = "error"
            /\ err' = LoadFromFile(LoadedFile, program).err
            /\ UNCHANGED <<program, ifLog>>
    /\ UNCHANGED <<stack, ip, frames, pc, output, stderr, code, stack0,
                   nlines, exitBy, cmd, files>>

\* except Exception as e: print('error: %s' % e, file=sys.stderr); exit(1)
MainFail ==
    /\ cmd \in FileCommands
    /\ rpc = "run"
    /\ status = "error"
    /\ stderr' = Append(stderr, err)
    /\ rpc' = "exited"
    /\ exitBy' = "status 1"
    /\ UNCHANGED <<program, stack, ip, frames, pc, status, err, output, code,
                   stack0, ifLog, last, nlines, cmd, files>>

\* vm.execute() has returned: main ends
MainDone ==
    /\ cmd \in FileCommands
    /\ rpc = "run"
    /\ status = "done"
    /\ rpc' = "exited"
    /\ exitBy' = "status 0"
    /\ UNCHANGED <<program, stack, ip, frames, pc, status, err, output, stderr,
                   code, stack0, ifLog, last, nlines, cmd, files>>

MainNext ==
    \/ Next
    \/ MainLexFile
    \/ MainSave
    \/ MainLoad
    \/ MainFail
    \/ MainDone
    \/ cmd = "repl" /\ ReadLine
    \/ cmd = "repl" /\ PrintStack
    \/ cmd = "repl" /\ Report
    \/ cmd = "repl" /\ EndOfInput
    \/ cmd = "repl" /\ Interrupt

MainSpec == MainInit /\ [][MainNext]_vars

----------------------------------------------------------------------------
(* Block structure of a program, by instruction: a Push and its operand are *)
(* one instruction, and an End matches the nearest open If or While.        *)

IsOp(i, op) == InRange(i) /\ program[i + 1] = OpSlot(op)

\* the next End (want = END) or Else (want = OP_ELSE) of the block entered
\* before slot j, depth blocks being open inside it; -1 when there is none
RECURSIVE Closing(_, _, _)
Closing(j, depth, want) ==
    IF ~InRange(j) THEN -1
    ELSE IF IsOp(j, PUSH) THEN Closing(j + 2, depth, want)
    ELSE IF IsOp(j, OP_IF) \/ IsOp(j, WHILE) THEN Closing(j + 1, depth + 1, want)
    ELSE IF IsOp(j, END)
         THEN IF depth = 0
              THEN (IF want = END THEN j ELSE -1)
              ELSE Closing(j + 1, depth - 1, want)
    ELSE IF IsOp(j, OP_ELSE) /\ depth = 0 /\ want = OP_ELSE THEN j
    ELSE Closing(j + 1, depth, want)

\* the End that matches the If or While at slot i, the Else of the If at i
MatchEnd(i) == Closing(i + 1, 0, END)
ElseOf(i) == Closing(i + 1, 0, OP_ELSE)

\* the instruction at slot i is an End instruction (not an operand)
EndInstrFrom(i) == \E j \in i..(Len(program) - 1) : IsOp(j, END) /\ Closing(j, 0, END) = j

IsPrefix(s, t) == Len(s) <= Len(t) /\ s = SubSeq(t, 1, Len(s))

\* execute_op is being entered at slot j
Entering(j) == Running /\ pc = "dispatch" /\ ip = j

\* the handler of the If or While at slot i has just returned
Returned(i) == last.act = "return" /\ last.at = i

----------------------------------------------------------------------------
(* Claims *)

\* C1: when an If is dispatched with a truthy top of stack, no instruction
\* between its Else and its matching End is executed, and its handler
\* returns with the pointer immediately after the matching End.
C1_ThenBranchOnly ==
    \A i \in DOMAIN ifLog :
        (ifLog[i].cond = "T" /\ MatchEnd(i) >= 0) =>
            /\ \A j \in 0..(Len(program) - 1) :
                  (ElseOf(i) >= 0 /\ ElseOf(i) < j /\ j < MatchEnd(i)) => ~Entering(j)
            /\ Returned(i) => ip = MatchEnd(i) + 1

\* C2: when an If is dispatched with a falsy top of stack, no instruction of
\* its then-branch is executed; without an Else nothing is executed, so the
\* stack is the stack before minus the condition and nothing is printed; the
\* handler returns with the pointer immediately after the matching End.
C2_ElseBranchOnly ==
    \A i \in DOMAIN ifLog :
        (ifLog[i].cond = "F" /\ MatchEnd(i) >= 0) =>
            LET thenEnd == IF ElseOf(i) >= 0 THEN ElseOf(i) ELSE MatchEnd(i)
            IN /\ \A j \in 0..(Len(program) - 1) :
                     (i < j /\ j < thenEnd) => ~Entering(j)
               /\ Returned(i) => ip = MatchEnd(i) + 1
               /\ (Returned(i) /\ ElseOf(i) < 0) =>
                     (stack = ifLog[i].stk /\ output = ifLog[i].out)

\* the loop of the While at the top of the frames has run its body, which is
\* not empty, up to the End
WhileAtEnd ==
    /\ Running
    /\ pc = "loop"
    /\ frames # <<>>
    /\ TopFrame.kind = "while"
    /\ TopFrame.while_ip < ip
    /\ ip = MatchEnd(TopFrame.at)

\* C3: once an iteration of the body of a While has left a falsy value on
\* the stack, the loop stops: its handler returns past the End.
C3_WhileStopsOnFalsy ==
    [][(WhileAtEnd /\ stack # <<>> /\ ~Truthy(Top(stack)))
          => (frames' = Pop(frames) /\ ip' = ip + 1)]_vars

\* an If or a While is dispatched and no End instruction lies at or after it
BlockWithoutEnd ==
    /\ Running
    /\ pc = "dispatch"
    /\ IsOp(ip, OP_IF) \/ IsOp(ip, WHILE)
    /\ ~EndInstrFrom(ip)

\* C4: an If or a While dispatched with no End instruction at or after it
\* fails with the structural error and leaves the stack as it was.
C4_MissingEndIsStructural ==
    [][BlockWithoutEnd =>
          /\ status' = "error"
          /\ err' = (IF IsOp(ip, OP_IF) THEN "if op requires an end"
                                        ELSE "while op requires an end")
          /\ stack' = stack]_vars

\* an instruction is dispatched with fewer values than it pops
Underflow ==
    /\ Running
    /\ pc = "dispatch"
    /\ \/ (IsOp(ip, ADD) \/ IsOp(ip, EQUALS)) /\ Len(stack) < 2
       \/ IsOp(ip, DUMP) /\ stack = <<>>
       \/ (IsOp(ip, OP_IF) \/ IsOp(ip, WHILE)) /\ stack = <<>> /\ EndInstrFrom(ip)

\* C5: stack underflow aborts the run: the instruction ends the run with an
\* error, pushes no result and prints nothing, and nothing runs after it.
C5_UnderflowAborts ==
    [][/\ Underflow =>
             /\ status' = "error"
             /\ err' = IndexErrorPop
             /\ IsPrefix(stack', stack)
             /\ output' = output
       /\ status = "error" => UNCHANGED <<stack, output, ip, pc, status>>]_vars

C5_Witness ==
    /\ status = "error"
    /\ err = IndexErrorPop
    /\ last.act \in {"add", "equals", "dump", "if", "while"}
    /\ Len(last.pre) = 1
    /\ stack = <<>>

\* C6: the current instruction is only read with 0 <= ip < len(program),
\* and a run that ends normally ends with ip = len(program).
C6_PointerInRange ==
    /\ Entering(ip) => InRange(ip)
    /\ status = "error" => err # IndexErrorRead
    /\ status = "done" => ip = Len(program)

\* C7: on a stack with b on top of a, Add leaves a + b and Equals leaves the
\* Boolean a = b in place of the two; the values below are unchanged, the
\* depth drops by one and ip advances by one; '1 2 +' ends with [3],
\* '1 1 =' with [true] and '1 2 =' with [false].
C7_AddEquals ==
    /\ (last.act \in {"add", "equals"} /\ Len(last.pre) >= 2) =>
          LET b == Top(last.pre)
              a == Top(Pop(last.pre))
          IN /\ status = "running"
             /\ Len(stack) = Len(last.pre) - 1
             /\ Pop(stack) = Pop(Pop(last.pre))
             /\ ip = last.at + 1
             /\ last.act = "add" => Top(stack).v = a.v + b.v
             /\ last.act = "equals" =>
                   /\ Top(stack).k = "bool"
                   /\ (Top(stack).v = 1) = (a.v = b.v)
                   /\ (Top(stack).v = 0) = (a.v # b.v)
    /\ (status = "done" /\ stack0 = <<>>) =>
          /\ code = <<"1", "2", "+">> => stack = <<IntV(3)>>
          /\ code = <<"1", "1", "=">> => stack = <<BoolV(TRUE)>>
          /\ code = <<"1", "2", "=">> => stack = <<BoolV(FALSE)>>

C7_Witness ==
    /\ last.act = "add"
    /\ last.pre = <<IntV(1), IntV(2)>>
    /\ stack = <<IntV(3)>>

\* a line of the interactive loop has failed while executing
LineFailed == status = "error" /\ err # "unknown word"

\* C8 as stated: after a line whose execution failed, the stack is the stack
\* as it was before that line started.
C8_StackRestored == (rpc = "prompt" /\ LineFailed) => stack = stack0

\* C8 as amended: after a line whose execution failed, the stack is the stack
\* as the failed run left it: the failing instruction only removes the
\* values it had popped, and nothing changes the stack between the failure
\* and the start of the next line.
C8_StackAsLeft ==
    [][/\ (status = "running" /\ status' = "error") => IsPrefix(stack', stack)
       /\ status = "error" => stack' = stack]_vars

C8_Witness ==
    /\ rpc = "prompt"
    /\ LineFailed
    /\ stack # stack0
    /\ stack # <<>>

\* repl constructs the machine for the line it has read
Loaded == rpc = "prompt" /\ rpc' = "run" /\ status' = "running"

\* C9: the run of each line starts with ip = 0, with the program lexed from
\* that line only and with the stack the run of the previous line left,
\* whether it completed or aborted.
C9_OnlyStackCarried ==
    [][/\ Loaded =>
             /\ ip' = 0
             /\ pc' = "loop"
             /\ frames' = <<>>
             /\ program' = LexWords(Words(code'))
             /\ stack' = stack
       /\ status \in {"done", "error"} => stack' = stack]_vars

C9_Witness ==
    /\ nlines = 2
    /\ rpc = "run"
    /\ status = "running"
    /\ last = NoStep
    /\ ip = 0
    /\ stack # <<>>
    /\ program # <<>>

\* a line has failed and the failure is not yet reported
ErrorPending == rpc = "run" /\ status = "error"

\* C10: the interactive loop never exits because of a program error: a
\* failure in lexing or in execution is reported and the loop prompts again;
\* the loop exits only on end-of-input or interrupt.
C10_NeverExitsOnError ==
    /\ ErrorPending ~> (rpc = "prompt" /\ stderr # <<>> /\ Top(stderr) = err)
    /\ [][rpc' = "exited" => (~ErrorPending /\ exitBy' \in {"eof", "interrupt"})]_vars

C10_Witness ==
    /\ rpc = "prompt"
    /\ status = "error"
    /\ Len(stderr) = 2
    /\ stderr[1] = "unknown word"
    /\ stderr[2] = IndexErrorPop

\* the errors load_from_file raises
LoadErrors == {"invalid file format", "invalid file version", "Ran out of input"}

\* C11: round trip: save_to_file followed by load_from_file on the written
\* file gives a program equal to the saved one, slot for slot, in the same
\* order and with the same kind (opcode, integer, float) of every slot; so
\* compile --run executes exactly the program lex_file returned.
C11_RoundTrip ==
    /\ LoadFromFile(SaveToFile(program), <<>>) = [err |-> "", program |-> program]
    /\ (cmd = "compile-run" /\ rpc \in {"run", "exited"} /\ LexFile(files.input).ok)
          => /\ program = LexFile(files.input).program
             /\ err \notin LoadErrors
             /\ files.output = SaveToFile(program)

C11_Witness ==
    /\ cmd = "execute"
    /\ last.act = "load"
    /\ status = "running"
    /\ files.input = SaveToFile(program)
    /\ \E i \in DOMAIN program : program[i].k = "float"
    /\ \E i \in DOMAIN program : program[i].k = "int"
    /\ \E i \in DOMAIN program : program[i].k = "op"

\* the first and the second pickle of the file load_from_file reads
MagicOf(f) == Unpickle(f, 1, <<>>)
VersionOf(f) == Unpickle(f, MagicOf(f).pos, <<>>)

\* the file about to be loaded has a magic other than STACK_MAGIC
BadMagic ==
    /\ MagicOf(LoadedFile).ok
    /\ Differ(MagicOf(LoadedFile).obj, STACK_MAGIC)

\* the file about to be loaded has the magic and a version other than 1.0
BadVersion ==
    /\ MagicOf(LoadedFile).ok
    /\ ~Differ(MagicOf(LoadedFile).obj, STACK_MAGIC)
    /\ VersionOf(LoadedFile).ok
    /\ Differ(VersionOf(LoadedFile).obj, STACK_VERSION)

\* C12: loading a file whose magic differs fails with 'invalid file format'
\* (whatever its version is), one whose magic matches and whose version
\* differs from 1.0 fails with 'invalid file version'; both leave the
\* program of the machine unchanged, and after either failure execute and
\* compile --run dispatch no instruction: nothing is pushed or printed and
\* the process exits with status 1.
C12_MagicThenVersion ==
    /\ [][(rpc = "load" /\ rpc' # "load") =>
             /\ BadMagic => /\ status' = "error"
                            /\ err' = "invalid file format"
                            /\ program' = program
             /\ BadVersion => /\ status' = "error"
                              /\ err' = "invalid file version"
                              /\ program' = program]_vars
    /\ []((status = "error" /\ err \in {"invalid file format", "invalid file version"}) =>
             /\ last.act = "load"
             /\ cmd \in {"execute", "compile-run"}
             /\ ip = 0 /\ pc = "loop" /\ frames = <<>>
             /\ stack = <<>> /\ output = <<>>
             /\ rpc \in {"run", "exited"}
             /\ rpc = "exited" => (exitBy = "status 1" /\ stderr = <<err>>))

C12_Witness ==
    /\ cmd = "execute"
    /\ rpc = "exited"
    /\ err = "invalid file format"
    /\ files.input = Serialize(OtherMagic, FloatV(2), ListV(<<OpSlot(PUSH), IntV(1), OpSlot(DUMP)>>))
    /\ program = <<>>
    /\ output = <<>>

\* some word of the text is neither a keyword nor a numeric literal
HasUnknownWord(text) ==
    \E i \in DOMAIN text :
        /\ text[i] # ""
        /\ text[i] \notin Keywords
        /\ text[i] \notin IntLiterals \cup FloatLiterals

\* the source text is being lexed: a line of the interactive loop, or the
\* file of compile
Lexing == (rpc = "prompt" /\ rpc' = "run") \/ (rpc = "lex" /\ rpc' # "lex")

\* C13: lexing is all-or-nothing: a text with a word that is neither a
\* keyword nor a numeric literal makes lex fail with no program, also when
\* valid words precede the bad one; in the interactive loop such a line
\* dispatches no instruction and leaves the stack (and the output)
\* unchanged, and compile writes no file.
C13_LexAllOrNothing ==
    /\ [][(Lexing /\ HasUnknownWord(code')) =>
             /\ ~Lex(code').ok
             /\ Lex(code').program = <<>>
             /\ status' = "error"
             /\ err' = "unknown word"
             /\ UNCHANGED <<program, stack, output, ip, pc, frames, ifLog, last, files>>]_vars
    /\ [][(status = "error" /\ err = "unknown word" /\ rpc # "prompt") =>
             UNCHANGED <<program, stack, output, ip, pc, frames, ifLog, last, files>>]_vars
    /\ []((status = "error" /\ err = "unknown word") =>
             /\ HasUnknownWord(code)
             /\ cmd = "repl" => stack = stack0)

C13_Witness ==
    /\ cmd = "repl"
    /\ rpc = "prompt"
    /\ status = "error"
    /\ err = "unknown word"
    /\ code = <<"1", "x">>
    /\ stack = <<IntV(1)>>
    /\ stack0 = stack
    /\ stderr = <<"unknown word">>

\* a Dump instruction is executed and prints the value it pops
DumpPrints ==
    /\ Dispatching(DUMP)
    /\ stack # <<>>
    /\ stack' = Pop(stack)
    /\ output' = Append(output, Top(stack))

\* the interactive loop prints the stack after a line that has completed
StackEchoed ==
    /\ cmd = "repl"
    /\ rpc = "run" /\ status = "done" /\ rpc' = "prompt"
    /\ stack' = stack
    /\ Len(output') = Len(output) + 1
    /\ SubSeq(output', 1, Len(output)) = output
    /\ output'[Len(output')].k = "list"
    /\ output'[Len(output')].v = stack

\* C14 as stated: in all three modes the standard output consists of exactly
\* the values popped by the executed Dump instructions, one per Dump, in
\* execution order; the front end prints nothing of its own.
C14_OnlyDumpPrints ==
    [][/\ output' # output => DumpPrints
       /\ (Dispatching(DUMP) /\ stack' # stack) => DumpPrints]_vars

\* C14 amended: execute and compile --run print exactly the values popped by
\* the executed Dump instructions, one per Dump, in execution order; the
\* interactive loop prints those values and, after every line that
\* completes without error, the whole stack; nothing else is printed, and
\* nothing is printed when a line or a run fails.
C14_DumpAndStackEcho ==
    [][/\ output' # output => (DumpPrints \/ StackEchoed)
       /\ (output' # output /\ cmd # "repl") => DumpPrints
       /\ (Dispatching(DUMP) /\ stack' # stack) => DumpPrints
       /\ (cmd = "repl" /\ rpc = "run" /\ rpc' = "prompt") =>
             IF status = "done" THEN StackEchoed ELSE output' = output]_vars

C14_Witness ==
    /\ cmd = "repl"
    /\ rpc = "prompt"
    /\ status = "done"
    /\ code = <<"1", ".">>
    /\ Len(output) = 2
    /\ output[1] = IntV(1)
    /\ output[2].k = "list"
    /\ output[2].v = <<>>

\* a While that has its matching End is dispatched with a falsy top of stack
WhileOnFalsy ==
    /\ Dispatching(WHILE)
    /\ IsOp(ip, WHILE)
    /\ MatchEnd(ip) >= 0
    /\ stack # <<>>
    /\ ~Truthy(Top(stack))

\* C15: a While dispatched with a falsy condition on top of the stack
\* executes no instruction of its body: its handler only pops the
\* condition, prints nothing, and returns with the instruction pointer on
\* the instruction right after the End that matches the While.
C15_FalsyWhileSkipsBody ==
    [][WhileOnFalsy =>
          /\ stack' = Pop(stack)
          /\ output' = output
          /\ status' = "running"
          /\ ip' = MatchEnd(ip) + 1]_vars

\* the innermost handler that is running is the loop of a While
InWhile == Running /\ frames # <<>> /\ TopFrame.kind = "while"

\* C16: the While handler pops the stack exactly once, when the While is
\* dispatched; the test of every later iteration reads no value from the
\* stack and leaves it as the body left it, a loop entered on a truthy
\* value goes on whatever the body has left on top, and every other change
\* of the stack during the loop is made by a dispatched body instruction.
C16_WhilePopsOnce ==
    [][/\ (Dispatching(WHILE) /\ status' = "running") => stack' = Pop(stack)
       /\ (Dispatching(WHILE) /\ status' # "running") => stack' = stack
       /\ (InWhile /\ pc = "loop") =>
             /\ stack' = stack
             /\ status' = "running" => (frames' = frames /\ pc' = "dispatch")
       /\ (InWhile /\ status' = "running") => IsPrefix(frames, frames')
       /\ \A i \in DOMAIN frames :
             (frames[i].kind = "while" /\ stack' # stack) =>
                 /\ pc = "dispatch"
                 /\ InRange(ip)
                 /\ ip >= frames[i].while_ip]_vars

\* a second iteration starts although the body left a falsy value on top
C16_Witness ==
    /\ InWhile
    /\ pc = "dispatch"
    /\ last.act = "loop"
    /\ InRange(last.at)
    /\ Is(program[last.at + 1], END)
    /\ ip = TopFrame.while_ip
    /\ last.at > ip
    /\ stack # <<>>
    /\ ~Truthy(Top(stack))

\* the instructions from slot j on close the blocks of open (innermost
\* last: "if", "else" for an If past its Else, "while") and are properly
\* nested themselves
RECURSIVE Nested(_, _)
Nested(j, open) ==
    IF ~InRange(j) THEN open = <<>>
    ELSE IF IsOp(j, PUSH) THEN Nested(j + 2, open)
    ELSE IF IsOp(j, OP_IF) THEN Nested(j + 1, Append(open, "if"))
    ELSE IF IsOp(j, WHILE) THEN Nested(j + 1, Append(open, "while"))
    ELSE IF IsOp(j, OP_ELSE)
         THEN open # <<>> /\ Top(open) = "if" /\ Nested(j + 1, Append(Pop(open), "else"))
    ELSE IF IsOp(j, END) THEN open # <<>> /\ Nested(j + 1, Pop(open))
    ELSE Nested(j + 1, open)

\* every If and While has its own matching End and every Else lies directly
\* inside one If
WellNested == Nested(0, <<>>)

StrayErrors == {"else op requires an if", "end op should close an if or else block"}

\* C17: the run of a properly nested program never raises 'else op requires
\* an if' or 'end op should close an if or else block': no End or Else of
\* a block reaches the dispatcher as a stray instruction.
C17_NoStrayInNested ==
    WellNested => ~(status = "error" /\ err \in StrayErrors)

\* the slots at which an instruction starts, walking from slot j: a Push
\* takes two slots, every other instruction one
RECURSIVE Starts(_)
Starts(j) ==
    IF ~InRange(j) THEN {}
    ELSE {j} \cup Starts(IF IsOp(j, PUSH) THEN j + 2 ELSE j + 1)

IsOperand(j) == InRange(j) /\ program[j + 1].k \in {"int", "float"}

\* from slot j on every instruction starts on an opcode, every Push is
\* followed by its operand, and there is no other operand slot
RECURSIVE AlignedFrom(_)
AlignedFrom(j) ==
    IF ~InRange(j) THEN j = Len(program)
    ELSE /\ program[j + 1].k = "op"
         /\ IF IsOp(j, PUSH)
            THEN IsOperand(j + 1) /\ AlignedFrom(j + 2)
            ELSE AlignedFrom(j + 1)

Aligned == AlignedFrom(0)

\* C18: in a program returned by lex every Push opcode is followed by
\* exactly one operand slot; execute_op is only entered with the pointer in
\* range on the opcode slot of an instruction, never on an operand slot;
\* and the slot the Push handler reads is an operand slot within bounds.
C18_Alignment ==
    /\ Aligned
    /\ (Running /\ pc = "dispatch") =>
          /\ InRange(ip)
          /\ ip \in Starts(0)
          /\ CurrentOp.k = "op"
          /\ Is(CurrentOp, PUSH) => IsOperand(ip + 1)

\* a Push is entered right after a scan that stopped on the operand 7
C18_Witness ==
    /\ Dispatching(PUSH)
    /\ ip = 3
    /\ program[1] = OpSlot(OP_IF)
    /\ program[3] = IntV(7)
    /\ IsOperand(ip + 1)
    /\ stack0 = <<IntV(0)>>
    /\ stack = <<>>

\* the slots the step about to be taken treats as an End or an Else: the
\* slot on which a loop of the If or While handler stops or resets, the Else
\* the true branch meets and the End skip_until finds for it, the Else the
\* false branch finds while scanning, and the End skip_until finds for a
\* While whose condition was falsy
LoopMarkers ==
    IF Running /\ pc = "loop" /\ frames # <<>> /\ InRange(ip)
    THEN (IF Is(CurrentOp, END) THEN {ip} ELSE {}) \cup
         (IF TopFrame.kind = "ifT" /\ Is(CurrentOp, OP_ELSE)
          THEN {ip} \cup {j \in {SkipUntil(ip, END)} : InRange(j)}
          ELSE {}) \cup
         (IF TopFrame.kind = "ifF" /\ ~Is(CurrentOp, END) /\ InRange(ip + 1)
             /\ Is(program[ip + 2], OP_ELSE)
          THEN {ip + 1}
          ELSE {})
    ELSE {}

SkipMarkers ==
    IF Dispatching(WHILE) /\ EndInRest(ip) /\ stack # <<>> /\ ~Truthy(Top(stack))
    THEN {j \in {SkipUntil(ip + 1, END)} : InRange(j)}
    ELSE {}

\* C19: the run does not depend on the values of Push operands in regions
\* that are skipped or only scanned; in particular a Push operand whose
\* value equals the opcode number of End or Else is never taken for that
\* marker: every slot a handler treats as an End or an Else is an opcode
\* slot, and the End-existence check of If and While is only satisfied by
\* an End opcode.
C19_OperandNeverMarker ==
    /\ \A j \in LoopMarkers \cup SkipMarkers : program[j + 1].k = "op"
    /\ ((Dispatching(OP_IF) \/ Dispatching(WHILE)) /\ EndInRest(ip)) =>
          \E j \in ip..(Len(program) - 1) : IsOp(j, END)

\* the program has no While instruction
NoWhile == \A j \in DOMAIN program : ~Is(program[j], WHILE)

\* the false branch of an If is about to start its scan on the If itself
Scanning ==
    /\ pc = "loop"
    /\ frames # <<>>
    /\ TopFrame.kind = "ifF"
    /\ ip = TopFrame.at

\* a measure of the progress of a run without While: the pointer, then the
\* position inside the step at that pointer
Rank == 3 * ip + (IF pc = "dispatch" THEN 1 ELSE IF Scanning THEN 2 ELSE 0)

\* C20: the run of a program without While terminates, normally or with an
\* error, from every stack: the pointer never decreases, every step that
\* does not end the run increases a measure bounded by the length of the
\* program, and between two entries of execute_op the pointer increases, so
\* at most Len(program) instructions are dispatched.
C20_NoWhileTerminates ==
    /\ [][(NoWhile /\ Running) =>
             /\ ip' >= ip
             /\ status' = "running" => Rank' > Rank
             /\ (pc = "dispatch" /\ status' = "running") =>
                   (pc' = "loop" /\ (ip' > ip \/ Scanning'))
             /\ (Scanning /\ status' = "running") => ip' > ip]_vars
    /\ []((NoWhile /\ Running) =>
             /\ 0 <= ip
             /\ ip <= Len(program)
             /\ Rank <= 3 * Len(program) + 2)

\* a program without While has ended normally after the false branch of an
\* If ran its else-branch
C20_Witness ==
    /\ NoWhile
    /\ status = "done"
    /\ ip = Len(program)
    /\ Len(program) >= 4
    /\ program[1] = OpSlot(OP_IF)
    /\ ifLog[0].cond = "F"
    /\ stack # <<>>

====
